---------------------------- MODULE Spec2Model ----------------------------
(***************************************************************************)
(* A model of chrome_scripts/chromedriver_updater.py: the six stage        *)
(* functions and main(), which runs them in sequence.                      *)
(*                                                                         *)
(* Python strings are sequences of one-character strings, so that split,   *)
(* join, lower and re.match are computed character by character.  Python   *)
(* values are records tagged with their type; the outcome of a call is     *)
(* either a returned value or a raised exception.                          *)
(***************************************************************************)
EXTENDS Integers, Sequences, FiniteSets, TLC

VARIABLES
    pc,                         \* position of main(), or of the function called on its own
    user_platform,              \* main's parameter
    current_chrome_version,     \* main's locals, in the order main assigns them
    chromedriver_download_url,
    downloaded_fn,
    extracted_chromedriver_fp,
    os_chromedriver_location,
    final_status,
    call,                       \* the last call made: function, arguments, what the outside world answered
    ret,                        \* the outcome of that call
    log,                        \* what loguru's logger received, in order
    stages,                     \* the stage functions main has called, in order
    requests_made,              \* HTTP requests sent (requests.get)
    fs_ops,                     \* the filesystem writes made, in order
    target,                     \* the installed chromedriver file: content and mode
    uncaught                    \* the exception that left main, "" when none

vars == <<pc, user_platform, current_chrome_version, chromedriver_download_url,
          downloaded_fn, extracted_chromedriver_fp, os_chromedriver_location,
          final_status, call, ret, log, stages, requests_made, fs_ops,
          target, uncaught>>

---------------------------------------------------------------------------
(* Bounds of the model.                                                    *)

MaxVersionLen == 8      \* longest string given to is_valid_version on its own
MaxDownloads == 2       \* longest "chrome" download list of a metadata document
MaxUrlLen == 3          \* longest url of a download descriptor
MaxPlatformLen == 1     \* longest platform identifier tried on the resolver
MaxZipFnLen == 5        \* longest archive file name given to extract_zipped_file on its own

---------------------------------------------------------------------------
(* Python values and call outcomes.                                        *)

PyNone == [kind |-> "None"]
PyStr(s) == [kind |-> "str", val |-> s]
PyBool(b) == [kind |-> "bool", val |-> b]
PyDict(d) == [kind |-> "dict", val |-> d]
PyInt(n) == [kind |-> "int", val |-> n]

\* bool(v): None, "" and False are falsy.
Truthy(v) ==
    CASE v.kind = "None" -> FALSE
      [] v.kind = "str" -> v.val # <<>>
      [] v.kind = "bool" -> v.val
      [] OTHER -> TRUE

Unset == [kind |-> "unset"]

\* A call's outcome: the value returned or the exception raised, with the
\* log records, HTTP requests and filesystem writes made on the way.
Returns(v, logs, nreq, ops) ==
    [raised |-> "", val |-> v, logs |-> logs, requests |-> nreq, fs_ops |-> ops]

Raises(e, logs, nreq, ops) ==
    [raised |-> e, val |-> PyNone, logs |-> logs, requests |-> nreq, fs_ops |-> ops]

\* One record handed to the logger: level, the line of the call, and the
\* values interpolated into its message.
LogRecord(level, line, args) == [level |-> level, line |-> line, args |-> args]

---------------------------------------------------------------------------
(* Strings.                                                                *)

Digits == {"0", "1", "2", "3", "4", "5", "6", "7", "8", "9"}
Whitespace == {" ", "\n", "\t"}

RECURSIVE StringsUpTo(_, _)
\* every string over alphabet of length at most n
StringsUpTo(alphabet, n) ==
    IF n = 0 THEN {<<>>}
    ELSE LET shorter == StringsUpTo(alphabet, n - 1)
         IN shorter \cup {Append(s, c) : s \in {t \in shorter : Len(t) = n - 1}, c \in alphabet}

RECURSIVE SplitFrom(_, _, _, _, _)
SplitFrom(s, sep, i, cur, acc) ==
    IF i > Len(s) THEN Append(acc, cur)
    ELSE IF s[i] = sep THEN SplitFrom(s, sep, i + 1, <<>>, Append(acc, cur))
    ELSE SplitFrom(s, sep, i + 1, Append(cur, s[i]), acc)

\* s.split(sep) for a one-character sep: always at least one piece.
Split(s, sep) == SplitFrom(s, sep, 1, <<>>, <<>>)

RECURSIVE SplitWsFrom(_, _, _, _)
SplitWsFrom(s, i, cur, acc) ==
    IF i > Len(s) THEN (IF cur = <<>> THEN acc ELSE Append(acc, cur))
    ELSE IF s[i] \in Whitespace
         THEN SplitWsFrom(s, i + 1, <<>>, IF cur = <<>> THEN acc ELSE Append(acc, cur))
    ELSE SplitWsFrom(s, i + 1, Append(cur, s[i]), acc)

\* s.split(): the maximal runs of non-whitespace; none for a blank string.
SplitWs(s) == SplitWsFrom(s, 1, <<>>, <<>>)

RECURSIVE Strip(_)
\* s.strip()
Strip(s) ==
    IF s = <<>> THEN s
    ELSE IF Head(s) \in Whitespace THEN Strip(Tail(s))
    ELSE IF s[Len(s)] \in Whitespace THEN Strip(SubSeq(s, 1, Len(s) - 1))
    ELSE s

RECURSIVE Join(_, _)
\* sep.join(parts)
Join(parts, sep) ==
    IF parts = <<>> THEN <<>>
    ELSE IF Len(parts) = 1 THEN parts[1]
    ELSE parts[1] \o sep \o Join(Tail(parts), sep)

LowerChar(c) ==
    CASE c = "L" -> "l"
      [] c = "M" -> "m"
      [] c = "X" -> "x"
      [] OTHER -> c

\* s.lower()
Lower(s) == [i \in 1..Len(s) |-> LowerChar(s[i])]

\* parts[:-1]
AllButLast(parts) == SubSeq(parts, 1, Len(parts) - 1)

\* parts[-1] of a non-empty list
Last(parts) == parts[Len(parts)]

---------------------------------------------------------------------------
(* is_valid_version                                                        *)

\* r'\d+\.\d+\.\d+\.\d+' as a sequence of character classes, each with or
\* without a "+".
version_pattern ==
    << [class |-> "digit", plus |-> TRUE], [class |-> "dot", plus |-> FALSE],
       [class |-> "digit", plus |-> TRUE], [class |-> "dot", plus |-> FALSE],
       [class |-> "digit", plus |-> TRUE], [class |-> "dot", plus |-> FALSE],
       [class |-> "digit", plus |-> TRUE] >>

InClass(c, class) == IF class = "digit" THEN c \in Digits ELSE c = "."

RECURSIVE MatchAt(_, _, _, _)
\* Whether pattern elements i.. match s from position j on; the match may
\* end before the end of s.
MatchAt(pattern, i, s, j) ==
    IF i > Len(pattern) THEN TRUE
    ELSE IF j > Len(s) THEN FALSE
    ELSE IF ~InClass(s[j], pattern[i].class) THEN FALSE
    ELSE \/ MatchAt(pattern, i + 1, s, j + 1)
         \/ pattern[i].plus /\ MatchAt(pattern, i, s, j + 1)

\* re.match(pattern, s) is not None: a match anchored at the start only.
ReMatch(pattern, s) == MatchAt(pattern, 1, s, 1)

is_valid_version(chromedriver_version) == ReMatch(version_pattern, chromedriver_version)


---------------------------------------------------------------------------
(* Literals of the program.                                                *)

USER_PLATFORM == <<"l", "i", "n", "u", "x", "6", "4">>

chromedriver == <<"c", "h", "r", "o", "m", "e", "d", "r", "i", "v", "e", "r">>

\* f"/chromedriver-{user_platform}.zip"
ArchiveSuffix(platform) == <<"/">> \o chromedriver \o <<"-">> \o platform \o <<".", "z", "i", "p">>

HTTP_OK == 200

Mode0755 == 493     \* 0o755, rwxr-xr-x

---------------------------------------------------------------------------
(* get_chrome_version                                                      *)

\* proc is what running ['google-chrome', '--version'] did: whether the
\* executable could be launched, its exit status and its output.
get_chrome_version(proc) ==
    IF ~proc.launched
    THEN Raises("FileNotFoundError", <<>>, 0, <<>>)         \* not a CalledProcessError
    ELSE IF proc.returncode # 0
    THEN Returns(PyNone, <<LogRecord("error", 30, <<PyStr(Strip(proc.output))>>)>>, 0, <<>>)
    ELSE LET tokens == SplitWs(Strip(proc.output))
         IN IF tokens = <<>>
            THEN Raises("IndexError", <<>>, 0, <<>>)        \* [][-1]
            ELSE LET version == Last(tokens)
                 IN IF ~is_valid_version(version)
                    THEN Returns(PyNone, <<LogRecord("error", 23, <<PyStr(version)>>)>>, 0, <<>>)
                    ELSE Returns(PyStr(version), <<>>, 0, <<>>)

---------------------------------------------------------------------------
(* get_chromedriver_download_url                                           *)

EmptyDict == <<>>

HasKey(d, k) == k \in DOMAIN d

\* "/".join(download_url.split("/")[:-1]) + f"/chromedriver-{user_platform}.zip"
RewriteUrl(download_url, platform) ==
    Join(AllButLast(Split(download_url, "/")), <<"/">>) \o ArchiveSuffix(platform)

RECURSIVE ScanDownloads(_, _, _, _)
\* The for loop over downloads_list_of_dicts, from entry i on, and what
\* follows it.
ScanDownloads(downloads_list_of_dicts, i, major_version_dict, platform) ==
    IF i > Len(downloads_list_of_dicts)
    THEN Returns(PyNone,
                 <<LogRecord("error", 74, <<PyDict(major_version_dict), PyStr(platform)>>)>>,
                 1, <<>>)
    ELSE LET dict_i == downloads_list_of_dicts[i]
         IN IF ~HasKey(dict_i, "platform")
            THEN Raises("KeyError", <<>>, 1, <<>>)
            ELSE IF Lower(dict_i["platform"]) = Lower(platform)
            THEN IF ~HasKey(dict_i, "url")
                 THEN Raises("KeyError", <<>>, 1, <<>>)
                 ELSE LET download_url == RewriteUrl(dict_i["url"], platform)
                      IN IF download_url = <<>>
                         THEN Returns(PyNone,
                                      <<LogRecord("error", 74,
                                                  <<PyDict(major_version_dict), PyStr(platform)>>)>>,
                                      1, <<>>)
                         ELSE Returns(PyStr(download_url), <<>>, 1, <<>>)
            ELSE ScanDownloads(downloads_list_of_dicts, i + 1, major_version_dict, platform)

\* resp is the answer to requests.get(latest_versions_url): whether a
\* response came at all, its status code, whether its body is JSON, and the
\* parsed document.
get_chromedriver_download_url(chrome_version, platform, resp) ==
    IF ~resp.connected
    THEN Raises("ConnectionError", <<>>, 1, <<>>)
    ELSE IF resp.status_code # HTTP_OK
    THEN Returns(PyNone, <<LogRecord("error", 42, <<PyInt(resp.status_code)>>)>>, 1, <<>>)
    ELSE LET chromedriver_major_version == Split(chrome_version, ".")[1]
         IN IF ~resp.is_json
            THEN Raises("JSONDecodeError", <<>>, 1, <<>>)
            ELSE IF ~HasKey(resp.json, "milestones")
            THEN Returns(PyNone, <<LogRecord("warning", 50, <<>>)>>, 1, <<>>)
            ELSE LET milestones_dict == resp.json["milestones"]
                 IN IF ~HasKey(milestones_dict, chromedriver_major_version)
                    THEN Returns(PyNone,
                                 <<LogRecord("warning", 56, <<PyStr(chromedriver_major_version)>>)>>,
                                 1, <<>>)
                    ELSE LET major_version_dict == milestones_dict[chromedriver_major_version]
                         IN IF \/ ~HasKey(major_version_dict, "downloads")
                               \/ ~HasKey(major_version_dict["downloads"], "chrome")
                            THEN Returns(PyNone, <<LogRecord("warning", 62, <<>>)>>, 1, <<>>)
                            ELSE ScanDownloads(major_version_dict["downloads"]["chrome"], 1,
                                               major_version_dict, platform)

---------------------------------------------------------------------------
(* download_chromedriver                                                   *)

\* resp.raise_for_status(): an HTTPError for a 4xx or 5xx status.
RaisesForStatus(status_code) == status_code >= 400 /\ status_code < 600

\* resp is the answer to requests.get(chromedriver_download_url,
\* stream=True); io says where writing the file fails: "open", "write" or
\* "" (nowhere).
download_chromedriver(download_url, resp, io) ==
    LET fn == Last(Split(download_url, "/"))
        opened == <<[op |-> "open_wb", path |-> fn]>>
    IN IF ~resp.connected
       THEN Raises("ConnectionError", <<>>, 1, <<>>)
       ELSE IF RaisesForStatus(resp.status_code)
       THEN Raises("HTTPError", <<>>, 1, <<>>)
       ELSE IF fn = <<>> \/ io = "open"
       THEN Raises("OSError", <<>>, 1, <<>>)
       ELSE IF io = "write"
       THEN Raises("OSError", <<>>, 1, opened)
       ELSE Returns(PyStr(fn), <<>>, 1, opened)

---------------------------------------------------------------------------
(* extract_zipped_file                                                     *)

\* os.path.join(a, b) for a relative b
PathJoin(a, b) ==
    IF a = <<>> THEN b
    ELSE IF Last(a) = "/" THEN a \o b
    ELSE a \o <<"/">> \o b

\* extracted says whether ZipFile(zip_fn).extractall("") went through.
extract_zipped_file(zip_fn, extracted) ==
    IF ~extracted
    THEN Returns(PyBool(FALSE), <<LogRecord("error", 99, <<>>)>>, 0, <<>>)
    ELSE LET zip_fn_wo_ext == Split(zip_fn, ".")[1]
         IN Returns(PyStr(PathJoin(zip_fn_wo_ext, chromedriver)), <<>>, 0,
                    <<[op |-> "extractall", path |-> <<>>]>>)

---------------------------------------------------------------------------
(* find_chromedriver_location                                              *)

\* proc is what running ["which", "chromedriver"] did.
find_chromedriver_location(proc) ==
    IF ~proc.launched
    THEN Raises("FileNotFoundError", <<>>, 0, <<>>)
    ELSE IF proc.returncode # 0
    THEN Returns(PyNone, <<LogRecord("error", 118, <<PyStr(Strip(proc.stderr))>>)>>, 0, <<>>)
    ELSE Returns(PyStr(Strip(proc.stdout)), <<>>, 0, <<>>)

---------------------------------------------------------------------------
(* move_extracted_chromedriver                                             *)

\* The call as it would be with os.chmod's failure not leading to the
\* failure value.
MoveIgnoringChmodFailure(extracted_fp, location, io) ==
    IF io \in {"copy_open", "copy_write"}
    THEN Returns(PyBool(FALSE), <<LogRecord("error", 131, <<>>)>>, 0,
                 IF io = "copy_write" THEN <<[op |-> "copy", path |-> location]>> ELSE <<>>)
    ELSE Returns(PyBool(TRUE), <<>>, 0,
                 <<[op |-> "copy", path |-> location], [op |-> "chmod", path |-> location]>>)

\* io says which step fails: "copy_open" (shutil.copy before it touches the
\* target), "copy_write" (shutil.copy part way), "chmod", or "" (none).
move_extracted_chromedriver(extracted_fp, location, io) ==
    IF io \in {"copy_open", "copy_write"}
    THEN Returns(PyBool(FALSE), <<LogRecord("error", 131, <<>>)>>, 0,
                 IF io = "copy_write" THEN <<[op |-> "copy", path |-> location]>> ELSE <<>>)
    ELSE IF io = "chmod"
    THEN Returns(PyBool(FALSE), <<LogRecord("error", 131, <<>>)>>, 0,
                 <<[op |-> "copy", path |-> location]>>)
    ELSE Returns(PyBool(TRUE), <<>>, 0,
                 <<[op |-> "copy", path |-> location], [op |-> "chmod", path |-> location]>>)

\* The installed file after the call: shutil.copy writes the source's content
\* and mode over it, os.chmod then sets the mode.
TargetAfterMove(old, source, io) ==
    CASE io = "copy_open" -> old
      [] io = "copy_write" -> [content |-> "partial", mode |-> old.mode]
      [] io = "chmod" -> source
      [] OTHER -> [content |-> source.content, mode |-> Mode0755]

---------------------------------------------------------------------------
(* What the outside world can answer.                                      *)

\* every list over S of length at most n
ListsUpTo(S, n) == UNION {[1..k -> S] : k \in 0..n}

\* A download descriptor is a dict that may lack either key.
Descriptors(platforms, urls) ==
    {EmptyDict}
    \cup {[platform |-> p] : p \in platforms}
    \cup {[url |-> u] : u \in urls}
    \cup {[platform |-> p, url |-> u] : p \in platforms, u \in urls}

\* The record of one major version, which may lack "downloads" or "chrome".
MajorVersionDicts(platforms, urls, n) ==
    {EmptyDict, [downloads |-> EmptyDict]}
    \cup {[downloads |-> [chrome |-> l]] : l \in ListsUpTo(Descriptors(platforms, urls), n)}

\* The parsed metadata document, which may lack "milestones" or the major
\* version.
Documents(majors, platforms, urls, n) ==
    {EmptyDict, [milestones |-> EmptyDict]}
    \cup {[milestones |-> [k \in {m} |-> d]] :
            m \in majors, d \in MajorVersionDicts(platforms, urls, n)}

NoResponse == [connected |-> FALSE, status_code |-> 0, is_json |-> FALSE, json |-> EmptyDict]

\* The answers to the metadata request: none, an error status, a body that
\* is not JSON, a document.
MetadataResponses(docs) ==
    {NoResponse}
    \cup {[connected |-> TRUE, status_code |-> 404, is_json |-> FALSE, json |-> EmptyDict]}
    \cup {[connected |-> TRUE, status_code |-> HTTP_OK, is_json |-> FALSE, json |-> EmptyDict]}
    \cup {[connected |-> TRUE, status_code |-> HTTP_OK, is_json |-> TRUE, json |-> d] : d \in docs}

\* The answers to the archive request.
ArchiveResponses ==
    {NoResponse}
    \cup {[connected |-> TRUE, status_code |-> c, is_json |-> FALSE, json |-> EmptyDict] :
            c \in {HTTP_OK, 404, 500}}

\* "Google Chrome 1.2.3.4\n", "", "Chrome 1.2", "1.2.3.4.5"
BrowserOutputs ==
    { <<"G", " ", "1", ".", "2", ".", "3", ".", "4", "\n">>,
      <<>>,
      <<"G", " ", "1", ".", "2">>,
      <<"1", ".", "2", ".", "3", ".", "4", ".", "5">> }

\* How running google-chrome --version can end.
BrowserRuns ==
    {[launched |-> FALSE, returncode |-> 0, output |-> <<>>]}
    \cup {[launched |-> TRUE, returncode |-> 1, output |-> <<"e", "\n">>]}
    \cup {[launched |-> TRUE, returncode |-> 0, output |-> o] : o \in BrowserOutputs}

\* How running which chromedriver can end; "/c" stands for the path found.
WhichRuns ==
    {[launched |-> FALSE, returncode |-> 0, stdout |-> <<>>, stderr |-> <<>>]}
    \cup {[launched |-> TRUE, returncode |-> 1, stdout |-> <<>>, stderr |-> <<>>]}
    \cup {[launched |-> TRUE, returncode |-> 0, stdout |-> o, stderr |-> <<>>] :
            o \in {<<"/", "c", "\n">>, <<>>, <<"\n">>}}

\* The platforms main is run for: the default, and one with a dot in it.
MainPlatforms == {USER_PLATFORM, <<"m", ".", "x">>}

\* The platforms the documents of a run of main name: "Linux64", "m.x".
MainDocPlatforms == {<<"L", "i", "n", "u", "x", "6", "4">>, <<"m", ".", "x">>}

\* "h://x/1/c.zip"
MainUrls == {<<"h", ":", "/", "/", "x", "/", "1", "/", "c", ".", "z", "i", "p">>}

MainDocuments == Documents({<<"1">>, <<"2">>}, MainDocPlatforms, MainUrls, MaxDownloads)

\* The file the extracted path names, when there is one.
SourceFiles == {[content |-> "new", mode |-> m] : m \in {Mode0755, 420}}

\* The installed chromedriver before the run.
TargetFiles == {[content |-> "old", mode |-> m] : m \in {Mode0755, 420}}

---------------------------------------------------------------------------
(* main                                                                    *)

Init ==
    /\ pc = "get_chrome_version"
    /\ user_platform \in MainPlatforms
    /\ current_chrome_version = Unset
    /\ chromedriver_download_url = Unset
    /\ downloaded_fn = Unset
    /\ extracted_chromedriver_fp = Unset
    /\ os_chromedriver_location = Unset
    /\ final_status = Unset
    /\ call = [fn |-> "main"]
    /\ ret = Unset
    /\ log = <<>>
    /\ stages = <<>>
    /\ requests_made = 0
    /\ fs_ops = <<>>
    /\ target \in TargetFiles
    /\ uncaught = ""

\* The call as it would be with main not returning on a falsy value.
StageCallWithoutCheck(c, out, before, after, next) ==
    /\ call' = c
    /\ ret' = out
    /\ stages' = Append(stages, c.fn)
    /\ requests_made' = requests_made + out.requests
    /\ fs_ops' = fs_ops \o out.fs_ops
    /\ uncaught' = out.raised
    /\ log' = log \o before \o out.logs \o (IF out.raised = "" THEN after ELSE <<>>)
    /\ pc' = IF out.raised # "" THEN "raised" ELSE next

\* What every call of a stage does to the state: c is the call, out its
\* outcome, before and after are main's own log records around the call
\* (after depends on the value returned), next is where main goes when
\* the value returned is truthy.
StageCall(c, out, before, after, next) ==
    /\ call' = c
    /\ ret' = out
    /\ stages' = Append(stages, c.fn)
    /\ requests_made' = requests_made + out.requests
    /\ fs_ops' = fs_ops \o out.fs_ops
    /\ uncaught' = out.raised
    /\ log' = log \o before \o out.logs \o (IF out.raised = "" THEN after ELSE <<>>)
    /\ pc' = IF out.raised # "" THEN "raised"
             ELSE IF Truthy(out.val) THEN next
             ELSE "returned"

\* The local main assigns the returned value to; an exception leaves it as
\* it was.
Assigned(old, out) == IF out.raised = "" THEN out.val ELSE old

\* lines 135-137
MainGetChromeVersion ==
    /\ pc = "get_chrome_version"
    /\ \E proc \in BrowserRuns :
         LET out == get_chrome_version(proc)
         IN /\ StageCall([fn |-> "get_chrome_version", proc |-> proc], out,
                         <<>>, <<>>, "get_chromedriver_download_url")
            /\ current_chrome_version' = Assigned(current_chrome_version, out)
    /\ UNCHANGED <<user_platform, chromedriver_download_url, downloaded_fn,
                   extracted_chromedriver_fp, os_chromedriver_location, final_status, target>>

\* lines 139-141
MainGetDownloadUrl ==
    /\ pc = "get_chromedriver_download_url"
    /\ \E resp \in MetadataResponses(MainDocuments) :
         LET out == get_chromedriver_download_url(current_chrome_version.val, user_platform, resp)
         IN /\ StageCall([fn |-> "get_chromedriver_download_url",
                          chrome_version |-> current_chrome_version.val,
                          user_platform |-> user_platform, resp |-> resp], out,
                         <<>>, <<>>, "download_chromedriver")
            /\ chromedriver_download_url' = Assigned(chromedriver_download_url, out)
    /\ UNCHANGED <<user_platform, current_chrome_version, downloaded_fn,
                   extracted_chromedriver_fp, os_chromedriver_location, final_status, target>>

\* lines 143-149
MainDownload ==
    /\ pc = "download_chromedriver"
    /\ \E resp \in ArchiveResponses, io \in {"", "open", "write"} :
         LET out == download_chromedriver(chromedriver_download_url.val, resp, io)
         IN /\ StageCall([fn |-> "download_chromedriver",
                          chromedriver_download_url |-> chromedriver_download_url.val,
                          resp |-> resp, io |-> io], out,
                         <<LogRecord("info", 143, <<current_chrome_version, PyStr(user_platform)>>)>>,
                         IF Truthy(out.val) THEN <<LogRecord("success", 149, <<>>)>>
                         ELSE <<LogRecord("error", 146, <<>>)>>,
                         "extract_zipped_file")
            /\ downloaded_fn' = Assigned(downloaded_fn, out)
    /\ UNCHANGED <<user_platform, current_chrome_version, chromedriver_download_url,
                   extracted_chromedriver_fp, os_chromedriver_location, final_status, target>>

\* lines 151-153
MainExtract ==
    /\ pc = "extract_zipped_file"
    /\ \E extracted \in BOOLEAN :
         LET out == extract_zipped_file(downloaded_fn.val, extracted)
         IN /\ StageCall([fn |-> "extract_zipped_file", zip_fn |-> downloaded_fn.val,
                          extracted |-> extracted], out,
                         <<>>, <<>>, "find_chromedriver_location")
            /\ extracted_chromedriver_fp' = Assigned(extracted_chromedriver_fp, out)
    /\ UNCHANGED <<user_platform, current_chrome_version, chromedriver_download_url,
                   downloaded_fn, os_chromedriver_location, final_status, target>>

\* lines 155-157
MainFindLocation ==
    /\ pc = "find_chromedriver_location"
    /\ \E proc \in WhichRuns :
         LET out == find_chromedriver_location(proc)
         IN /\ StageCall([fn |-> "find_chromedriver_location", proc |-> proc], out,
                         <<>>, <<>>, "move_extracted_chromedriver")
            /\ os_chromedriver_location' = Assigned(os_chromedriver_location, out)
    /\ UNCHANGED <<user_platform, current_chrome_version, chromedriver_download_url,
                   downloaded_fn, extracted_chromedriver_fp, final_status, target>>

\* lines 159-161
MainMove ==
    /\ pc = "move_extracted_chromedriver"
    /\ \E source \in SourceFiles, io \in {"", "copy_open", "copy_write", "chmod"} :
         LET out == move_extracted_chromedriver(extracted_chromedriver_fp.val,
                                                os_chromedriver_location.val, io)
         IN /\ StageCall([fn |-> "move_extracted_chromedriver",
                          extracted_chromedriver_fp |-> extracted_chromedriver_fp.val,
                          os_chromedriver_location |-> os_chromedriver_location.val,
                          source |-> source, io |-> io], out,
                         <<>>,
                         IF Truthy(out.val) THEN <<LogRecord("success", 161, <<>>)>> ELSE <<>>,
                         "done")
            /\ final_status' = Assigned(final_status, out)
            /\ target' = TargetAfterMove(target, source, io)
    /\ UNCHANGED <<user_platform, current_chrome_version, chromedriver_download_url,
                   downloaded_fn, extracted_chromedriver_fp, os_chromedriver_location>>

Next ==
    \/ MainGetChromeVersion
    \/ MainGetDownloadUrl
    \/ MainDownload
    \/ MainExtract
    \/ MainFindLocation
    \/ MainMove

Spec == Init /\ [][Next]_vars

---------------------------------------------------------------------------
(* The stage functions called on their own.                                *)

\* The state before a call c of function fn made outside main.
InitCall(fn, calls) ==
    /\ pc = fn
    /\ call \in calls
    /\ user_platform = <<>>
    /\ current_chrome_version = Unset
    /\ chromedriver_download_url = Unset
    /\ downloaded_fn = Unset
    /\ extracted_chromedriver_fp = Unset
    /\ os_chromedriver_location = Unset
    /\ final_status = Unset
    /\ ret = Unset
    /\ log = <<>>
    /\ stages = <<>>
    /\ requests_made = 0
    /\ fs_ops = <<>>
    /\ target \in {[content |-> "old", mode |-> Mode0755]}
    /\ uncaught = ""

\* The state after it, out being the call's outcome.
Called(out) ==
    /\ ret' = out
    /\ pc' = "returned"
    /\ log' = log \o out.logs
    /\ requests_made' = requests_made + out.requests
    /\ fs_ops' = fs_ops \o out.fs_ops
    /\ uncaught' = out.raised
    /\ UNCHANGED <<user_platform, current_chrome_version, chromedriver_download_url,
                   downloaded_fn, extracted_chromedriver_fp, os_chromedriver_location,
                   final_status, call, stages, target>>

\* is_valid_version on every string of digits, dots and letters up to
\* MaxVersionLen.
VersionStrings == StringsUpTo({"1", ".", "a"}, MaxVersionLen)

InitIsValidVersion ==
    InitCall("is_valid_version",
             {[fn |-> "is_valid_version", chromedriver_version |-> s] : s \in VersionStrings})

CallIsValidVersion ==
    /\ pc = "is_valid_version"
    /\ Called(Returns(PyBool(is_valid_version(call.chromedriver_version)), <<>>, 0, <<>>))

SpecIsValidVersion == InitIsValidVersion /\ [][CallIsValidVersion]_vars

\* get_chromedriver_download_url on every document over small non-empty
\* platforms and small urls.
ResolverPlatforms == StringsUpTo({"l", "L", "m"}, MaxPlatformLen) \ {<<>>}

ResolverUrls == StringsUpTo({"/", "x"}, MaxUrlLen)

ResolverVersions == {<<"1", ".", "1", ".", "1", ".", "1">>, <<"2", ".", "1", ".", "1", ".", "1">>}

ResolverDocuments == Documents({<<"1">>}, ResolverPlatforms, ResolverUrls, MaxDownloads)

InitGetDownloadUrl ==
    InitCall("get_chromedriver_download_url",
             {[fn |-> "get_chromedriver_download_url", chrome_version |-> v,
               user_platform |-> p, resp |-> r] :
                 v \in ResolverVersions, p \in ResolverPlatforms,
                 r \in MetadataResponses(ResolverDocuments)})

CallGetDownloadUrl ==
    /\ pc = "get_chromedriver_download_url"
    /\ Called(get_chromedriver_download_url(call.chrome_version, call.user_platform, call.resp))

SpecGetDownloadUrl == InitGetDownloadUrl /\ [][CallGetDownloadUrl]_vars

\* extract_zipped_file on every file name of letters and dots up to
\* MaxZipFnLen.
ZipFileNames == StringsUpTo({"a", "."}, MaxZipFnLen)

InitExtract ==
    InitCall("extract_zipped_file",
             {[fn |-> "extract_zipped_file", zip_fn |-> s, extracted |-> e] :
                 s \in ZipFileNames, e \in BOOLEAN})

CallExtract ==
    /\ pc = "extract_zipped_file"
    /\ Called(extract_zipped_file(call.zip_fn, call.extracted))

SpecExtract == InitExtract /\ [][CallExtract]_vars

---------------------------------------------------------------------------
(* Properties of main.                                                     *)

\* The order in which main calls the stage functions (lines 135-159).
StageOrder ==
    <<"get_chrome_version", "get_chromedriver_download_url", "download_chromedriver",
      "extract_zipped_file", "find_chromedriver_location", "move_extracted_chromedriver">>

\* The value each stage returned to main, in the same order.
StageResults ==
    <<current_chrome_version, chromedriver_download_url, downloaded_fn,
      extracted_chromedriver_fp, os_chromedriver_location, final_status>>

\* The stage returned, and returned a value main takes for success.
Succeeded(v) == v.kind # "unset" /\ Truthy(v)

\* The records of level error or warning among l.
FailureReports(l) == {i \in 1..Len(l) : l[i].level \in {"error", "warning"}}

\* main has logged "Chromedriver successfully updated for your OS."
Confirmed == \E i \in 1..Len(log) : log[i].line = 161

\* C1: in every run of main the stages are started in the fixed order, each
\* at most once; a stage is started, or about to be, only if every earlier
\* stage returned success; and main reaches Done (the final confirmation is
\* logged) only if all six stages succeeded.
C1_StagesInOrder ==
    /\ Len(stages) <= Len(StageOrder)
    /\ stages = SubSeq(StageOrder, 1, Len(stages))
    /\ \A k \in 1..Len(stages) : \A j \in 1..(k - 1) : Succeeded(StageResults[j])
    /\ \A k \in 1..Len(StageOrder) :
         pc = StageOrder[k] => \A j \in 1..(k - 1) : Succeeded(StageResults[j])
    /\ (pc = "done" \/ Confirmed) =>
         /\ stages = StageOrder
         /\ \A j \in 1..Len(StageOrder) : Succeeded(StageResults[j])
         /\ pc = "done" /\ Confirmed

\* A run in which all six stages ran and main confirmed the update.
C1_Witness ==
    /\ pc = "done"
    /\ stages = StageOrder
    /\ Confirmed

\* C2: when the browser cannot be launched or exits non-zero,
\* get_chrome_version returns a failure value with a report, main stops
\* after stage 1, and the run makes no HTTP request and no filesystem write.
C2_BrowserFailureAborts ==
    (call.fn = "get_chrome_version" /\ (~call.proc.launched \/ call.proc.returncode # 0)) =>
        /\ ret.raised = ""
        /\ ~Truthy(ret.val)
        /\ FailureReports(ret.logs) # {}
        /\ pc = "returned"
        /\ stages = <<"get_chrome_version">>
        /\ requests_made = 0
        /\ fs_ops = <<>>

\* C6: when the archive request gets a non-success status, or writing the
\* file fails, download_chromedriver returns a failure value instead of
\* raising, main reports the failed download and stops, and the extractor
\* is never called.
C6_DownloadFailureReturned ==
    (/\ call.fn = "download_chromedriver"
     /\ call.resp.connected
     /\ call.resp.status_code # HTTP_OK \/ call.io # "") =>
        /\ ret.raised = ""
        /\ ~Truthy(ret.val)
        /\ \E i \in 1..Len(log) : log[i].line = 146
        /\ pc = "returned"
        /\ Last(stages) = "download_chromedriver"

\* C7: every run of main that returns without reaching Done has logged
\* exactly one failure report, also when which chromedriver printed nothing
\* and exited with status zero.
C7_OneFailureReport ==
    pc = "returned" => Cardinality(FailureReports(log)) = 1

\* C8: move_extracted_chromedriver never raises; it returns True exactly when
\* both the copy and the chmod went through; when it returns True the target
\* has the source's content and mode 0755; when it returns False it has
\* logged an error.
C8_MoveSucceedsIffBothSteps ==
    call.fn = "move_extracted_chromedriver" =>
        /\ ret.raised = ""
        /\ ret.val.kind = "bool"
        /\ ret.val.val <=> call.io = ""
        /\ ret.val.val => target.content = call.source.content /\ target.mode = Mode0755
        /\ ~ret.val.val => FailureReports(ret.logs) # {}

\* An install that went through on a target that had another content and
\* another mode.
C8_Witness ==
    /\ call.fn = "move_extracted_chromedriver"
    /\ ret.val = PyBool(TRUE)
    /\ call.source.mode # Mode0755
    /\ target = [content |-> "new", mode |-> Mode0755]
    /\ pc = "done"

---------------------------------------------------------------------------
(* Properties of is_valid_version.                                         *)

\* s is four non-empty runs of decimal digits separated by three dots, and
\* nothing else.
IsStrictVersion(s) ==
    LET parts == Split(s, ".")
    IN /\ Len(parts) = 4
       /\ \A i \in 1..Len(parts) :
            /\ parts[i] # <<>>
            /\ \A j \in 1..Len(parts[i]) : parts[i][j] \in Digits

\* C3: is_valid_version(s) is true if and only if the whole of s is four
\* non-empty decimal integers separated by three dots.
C3_ValidIffStrict ==
    (pc = "returned" /\ call.fn = "is_valid_version") =>
        (ret.val.val <=> IsStrictVersion(call.chromedriver_version))

---------------------------------------------------------------------------
(* Properties of get_chromedriver_download_url.                            *)

\* The call got a parsed document with a success status.
Fetched ==
    /\ pc = "returned"
    /\ call.fn = "get_chromedriver_download_url"
    /\ call.resp.connected
    /\ call.resp.status_code = HTTP_OK
    /\ call.resp.is_json

CallMajor == Split(call.chrome_version, ".")[1]

HasMilestones == HasKey(call.resp.json, "milestones")

HasMajor == HasMilestones /\ HasKey(call.resp.json["milestones"], CallMajor)

HasDownloadList ==
    /\ HasMajor
    /\ HasKey(call.resp.json["milestones"][CallMajor], "downloads")
    /\ HasKey(call.resp.json["milestones"][CallMajor]["downloads"], "chrome")

DownloadList == call.resp.json["milestones"][CallMajor]["downloads"]["chrome"]

\* Descriptor d names the requested platform, ignoring case.
NamesPlatform(d) == HasKey(d, "platform") /\ Lower(d["platform"]) = Lower(call.user_platform)

\* The first descriptor of the list that names the requested platform.
FirstNaming == CHOOSE i \in 1..Len(DownloadList) :
                  /\ NamesPlatform(DownloadList[i])
                  /\ \A j \in 1..(i - 1) : ~NamesPlatform(DownloadList[j])

\* The position of the last "/" of s, 0 when it has none.
LastSlash(s) ==
    IF \E i \in 1..Len(s) : s[i] = "/"
    THEN CHOOSE i \in 1..Len(s) : s[i] = "/" /\ \A j \in (i + 1)..Len(s) : s[j] # "/"
    ELSE 0

\* url with its final path segment replaced by "chromedriver-<platform>.zip".
WithArchiveName(url, platform) ==
    SubSeq(url, 1, LastSlash(url)) \o chromedriver \o <<"-">> \o platform \o <<".", "z", "i", "p">>

\* C4: when the download list of the major version has an entry naming the
\* requested platform (ignoring case), the call returns the url of the first
\* such entry with its final path segment replaced by
\* "chromedriver-<platform>.zip".  (Stated for first entries that have a url
\* with a "/" in it.)
C4_FirstMatchRewritten ==
    (/\ Fetched
     /\ HasDownloadList
     /\ \E i \in 1..Len(DownloadList) : NamesPlatform(DownloadList[i])
     /\ HasKey(DownloadList[FirstNaming], "url")
     /\ LastSlash(DownloadList[FirstNaming]["url"]) > 0) =>
        /\ ret.raised = ""
        /\ ret.val = PyStr(WithArchiveName(DownloadList[FirstNaming]["url"], call.user_platform))

\* A key the code reads is absent: "milestones", the major version,
\* "downloads", "chrome", or "platform" or "url" in a descriptor the scan
\* reads (one up to the first that names the requested platform).
ExpectedKeyAbsent ==
    \/ ~HasDownloadList
    \/ \E i \in 1..Len(DownloadList) :
         /\ \A j \in 1..(i - 1) : ~NamesPlatform(DownloadList[j])
         /\ \/ ~HasKey(DownloadList[i], "platform")
            \/ NamesPlatform(DownloadList[i]) /\ ~HasKey(DownloadList[i], "url")

\* C5: when an expected key is absent at any level of the parsed document,
\* the call returns a failure value with a report, which names the major
\* version when that is what is absent, and raises nothing.
C5_AbsentKeyReported ==
    (Fetched /\ ExpectedKeyAbsent) =>
        /\ ret.raised = ""
        /\ ret.val = PyNone
        /\ FailureReports(ret.logs) # {}
        /\ (HasMilestones /\ ~HasMajor) =>
              \E i \in 1..Len(ret.logs) : ret.logs[i].args = <<PyStr(CallMajor)>>

\* Some value interpolated into report r is the string s.
Carries(r, s) == \E i \in 1..Len(r.args) : r.args[i].kind = "str" /\ r.args[i].val = s

\* C9: when the download list exists and no entry names the requested
\* platform, the call returns a failure value and its report carries the
\* major version string and the requested platform.
C9_PlatformNotFoundReported ==
    (/\ Fetched
     /\ HasDownloadList
     /\ \A i \in 1..Len(DownloadList) :
          HasKey(DownloadList[i], "platform") /\ ~NamesPlatform(DownloadList[i])) =>
        /\ ret.raised = ""
        /\ ret.val = PyNone
        /\ \E i \in 1..Len(ret.logs) :
              Carries(ret.logs[i], CallMajor) /\ Carries(ret.logs[i], call.user_platform)

---------------------------------------------------------------------------
(* Properties of extract_zipped_file.                                      *)

\* The position of the last "." of s, 0 when it has none.
LastDot(s) ==
    IF \E i \in 1..Len(s) : s[i] = "."
    THEN CHOOSE i \in 1..Len(s) : s[i] = "." /\ \A j \in (i + 1)..Len(s) : s[j] # "."
    ELSE 0

\* C10: for an archive file name extracted without error, the call returns
\* the file name with only its extension removed, joined with
\* "chromedriver", also when the name has a dot before its extension.
\* (Stated for names of two or more non-empty pieces separated by dots.)
C10_PathFromStem ==
    (/\ pc = "returned"
     /\ call.fn = "extract_zipped_file"
     /\ call.extracted
     /\ Len(Split(call.zip_fn, ".")) >= 2
     /\ \A i \in 1..Len(Split(call.zip_fn, ".")) : Split(call.zip_fn, ".")[i] # <<>>) =>
        /\ ret.raised = ""
        /\ ret.val = PyStr(SubSeq(call.zip_fn, 1, LastDot(call.zip_fn) - 1)
                           \o <<"/">> \o chromedriver)

=============================================================================
